---------------------------- MODULE Spec2Model ----------------------------
(***************************************************************************)
(* The recurring-payment billing worker of edge-tech                       *)
(* (src/server/services/subscription_service/Worker.service.ts).           *)
(*                                                                         *)
(* A BullMQ Worker runs processPayment for every job it fetches: price the *)
(* items, ask for a shipping quote, create a payment intent.  When the     *)
(* processor returns, the queue moves the job to "completed" and emits the *)
(* 'completed' event; the handler registered in listen() then opens a      *)
(* transaction, creates the Order and the Subscription, and commits.       *)
(* When the processor throws, the job is reported failed.  A job whose     *)
(* lock is lost while it is active (worker crash, stall) is delivered      *)
(* again.                                                                  *)
(***************************************************************************)
EXTENDS Integers, Sequences, FiniteSets

(* ------------------------------ bounds -------------------------------- *)

\* number of billing jobs in the queue
NumJobs == 2

\* how many times in all the queue hands a job to the worker again
MaxRedeliveries == 1

\* Worker option `concurrency` (50 in the source), scaled so that the
\* limit is reached with NumJobs jobs
concurrency == 1

Jobs == 1..NumJobs
Deliveries == 1..(MaxRedeliveries + 1)
Products == {1, 2}

(* ---------------------------- job payload ------------------------------ *)

\* job.data.orderItems: the product ids the job's items reference.  Job
\* payloads are immutable once enqueued.
ItemsOf(j) == IF j % 2 = 1 THEN {1} ELSE {1, 2}

\* the event name the persisting handler is registered for in listen()
HandlerEventMut == "active"
HandlerEvent == "completed"

\* the step processPayment awaits after the price lookups
AfterPricingMut == "charging"
AfterPricing == "shipping"

\* the processor's catch block ends with a throw
CatchRethrowsMut == FALSE
CatchRethrows == TRUE

\* the idempotency key processPayment hands to createPaymentIntent: the
\* call has four arguments (userId, amount, currency, paymentMethodId) and
\* none of them is the job id
NoKey == 0
IdempotencyKey(j) == NoKey

\* the transaction handle the handler passes to createOrder
NoTx == <<0, 0>>
OrderTransactionMut(j, d) == NoTx
OrderTransaction(j, d) == <<j, d>>

\* the Error the processor's catch block throws in place of the one caught
WrappedError == "worker couldn't process it"
ProcessorCatch(e) == WrappedError

ChargeErrors ==
    {"PaymentDeclinedError", "InvalidPaymentMethodError", "GatewayUnavailableError"}

NoError == "none"

VARIABLES
    products,     \* Product table: ids of the products that exist
    jobState,     \* queue's state of each job
    deliveries,   \* times each job was handed to the worker
    pc,           \* position of the job's running processor
    history,      \* steps the job's current run has performed, in order
    errLog,       \* error the job's current run caught (console.error)
    failedReason, \* error the processor threw to the queue last
    gatewayKeys,  \* idempotency keys the gateway has stored
    charges,      \* charges the gateway created, per job
    hpc,          \* position of each run of the 'completed' handler
    orders,       \* committed Order rows, by the handler run that made them
    orderItems,   \* committed OrderItem rows
    subscriptions,\* committed Subscription rows
    consoleErr,   \* handler failures written to console.error: run and step
    notified      \* jobs for which an admin notification was sent

\* The state outside the billing worker's run: each part moves only under
\* the specification that is about it and rests in the others.
VARIABLES
    amtIn,        \* a job payload with the prices and the quote it meets
    amtOut        \* the amount processPayment submits for it

amountVars == <<amtIn, amtOut>>

VARIABLES
    cartItems,    \* CartItem table: rows [id, cartId, productId, quantity]
    nextRowId,    \* next id the CartItem table gives out
    calls,        \* the CartService calls in progress, per request slot
    destroying,   \* ids of rows whose destroy() was started and not awaited
    started,      \* number of CartService calls made so far
    added,        \* per product, the quantities of the addItemToCart calls
                  \* that returned true
    customersSeen,\* customers that called the CartService
    nonAddSeen    \* a removeItemFromCart or clearCart call was made

cartVars == <<cartItems, nextRowId, calls, destroying, started, added,
              customersSeen, nonAddSeen>>

VARIABLES
    orderRows,      \* Order table: [id, customerId, status]
    orderItemRows,  \* OrderItem table: <<orderId, productId>>
    nextOrderId,    \* next id of the Order table
    lastRequest     \* the last request the OrderController handled, with
                    \* what it answered

orderVars == <<orderRows, orderItemRows, nextOrderId, lastRequest>>

VARIABLES
    listening     \* listen() has registered the worker's event handlers

VARIABLES
    clock,        \* the time, in ticks
    priceOf,      \* Product table: the current price of each product
    billing       \* per job, what was quoted and charged for it and the
                  \* Order and Subscription rows persisted for it

subVars == <<clock, priceOf, billing>>

VARIABLES
    adminLogs,    \* AdminLog table: rows [id, adminId, category, log]
    lastLog       \* the last logOperation call, with how it ended

logVars == <<adminLogs, lastLog>>

restVars == <<listening, subVars, logVars>>

apiVars == <<amountVars, cartVars, orderVars, restVars>>

workerVars == <<products, jobState, deliveries, pc, history, errLog,
                failedReason, gatewayKeys, charges, hpc, orders, orderItems,
                subscriptions, consoleErr, notified>>

vars == <<workerVars, apiVars>>

JobStates == {"waiting", "active", "completed", "failed"}
PcStates == {"idle", "pricing", "shipping", "charging", "charged", "done"}
HpcStates == {"idle", "open", "orderCreated", "subCreated", "committed",
              "rolledBack"}

TypeOK ==
    /\ products \subseteq Products
    /\ jobState \in [Jobs -> JobStates]
    /\ deliveries \in [Jobs -> 0..(MaxRedeliveries + 1)]
    /\ pc \in [Jobs -> PcStates]
    /\ errLog \in [Jobs -> {NoError, "ProductNotFoundError"} \cup ChargeErrors]
    /\ hpc \in [Jobs -> [Deliveries -> HpcStates]]
    /\ orders \subseteq Jobs \X Deliveries
    /\ subscriptions \subseteq Jobs \X Deliveries
    /\ notified \subseteq Jobs

\* no payload is being priced
NoPayload == [items |-> <<>>, price |-> [p \in Products |-> 0],
              shippingCost |-> 0]

AmountIdle == amtIn = NoPayload /\ amtOut = <<>>

\* requests the server handles at the same time
Callers == {1, 2}

\* a request slot with no call
NoCall == [op |-> "none", customer |-> 0, product |-> 0, quantity |-> 0,
           pc |-> "idle", item |-> 0, qtyRead |-> 0, result |-> "none",
           writes |-> <<>>, alone |-> TRUE]

CartInit ==
    /\ cartItems = {}
    /\ nextRowId = 1
    /\ calls = [k \in Callers |-> NoCall]
    /\ destroying = {}
    /\ started = 0
    /\ added = [p \in Products |-> 0]
    /\ customersSeen = {}
    /\ nonAddSeen = FALSE

NoRequest == [op |-> "none", userId |-> 0, orderId |-> 0, items |-> {},
              before |-> "none", error |-> NoError, responses |-> <<>>]

OrderInit ==
    /\ orderRows = {}
    /\ orderItemRows = {}
    /\ nextOrderId = 1
    /\ lastRequest = NoRequest

\* the price every product starts with, in thousandths
ListPrice == 20000

\* a job nothing has been done for
NoBilling == [pc |-> "waiting", quoteMethod |-> "none", charged |-> 0,
              order |-> <<>>, subscription |-> <<>>]

SubIdle ==
    /\ clock = 0
    /\ priceOf = [p \in Products |-> ListPrice]
    /\ billing = [j \in Jobs |-> NoBilling]

NoLog == [username |-> "none", target |-> "none", operation |-> "none",
          error |-> NoError, created |-> {}]

LogInit ==
    /\ adminLogs = {}
    /\ lastLog = NoLog

\* listen() has been called, and nothing else has happened outside the
\* worker, the cart, the orders and the amount
RestIdle == listening = TRUE /\ SubIdle /\ LogInit

ApiIdle == AmountIdle /\ CartInit /\ OrderInit /\ RestIdle

WorkerInit ==
    /\ products = Products
    /\ jobState = [j \in Jobs |-> "waiting"]
    /\ deliveries = [j \in Jobs |-> 0]
    /\ pc = [j \in Jobs |-> "idle"]
    /\ history = [j \in Jobs |-> <<>>]
    /\ errLog = [j \in Jobs |-> NoError]
    /\ failedReason = [j \in Jobs |-> NoError]
    /\ gatewayKeys = {}
    /\ charges = [j \in Jobs |-> 0]
    /\ hpc = [j \in Jobs |-> [d \in Deliveries |-> "idle"]]
    /\ orders = {}
    /\ orderItems = {}
    /\ subscriptions = {}
    /\ consoleErr = {}
    /\ notified = {}

Init == WorkerInit /\ ApiIdle

(* --------------------------- the queue's side -------------------------- *)

RECURSIVE RedeliveriesOf(_)
RedeliveriesOf(S) ==
    IF S = {} THEN 0
    ELSE LET j == CHOOSE k \in S : TRUE
         IN (IF deliveries[j] > 1 THEN deliveries[j] - 1 ELSE 0)
            + RedeliveriesOf(S \ {j})

\* the queue may hand job j to the worker once more
MayRedeliver(j) == RedeliveriesOf(Jobs) < MaxRedeliveries

\* jobs whose processor is running in the worker
InFlight == {j \in Jobs : pc[j] \notin {"idle", "done"}}

\* the worker takes another job only while it runs fewer than
\* `concurrency` processors
HasFreeSlotMut == TRUE
HasFreeSlot == Cardinality(InFlight) < concurrency

\* worker.emit(event, job, ...): runs the handlers registered for the
\* event.  listen() registers the persisting handler for HandlerEvent; the
\* handler logs, computes the dates and opens its transaction.  `d` is
\* the delivery the event belongs to, `hist` the run's steps so far.
Emit(event, j, d, hist) ==
    IF event = HandlerEvent /\ listening
    THEN /\ hpc' = [hpc EXCEPT ![j][d] = "open"]
         /\ history' = [history EXCEPT ![j] = Append(hist, "persisting")]
    ELSE /\ hpc' = hpc
         /\ history' = [history EXCEPT ![j] = hist]

\* The worker fetches a waiting job, takes its lock and starts the
\* processor; the queue emits 'active'.
Fetch(j) ==
    /\ jobState[j] = "waiting"
    /\ deliveries[j] = 0 \/ MayRedeliver(j)
    /\ HasFreeSlot
    /\ jobState' = [jobState EXCEPT ![j] = "active"]
    /\ deliveries' = [deliveries EXCEPT ![j] = @ + 1]
    /\ pc' = [pc EXCEPT ![j] = "pricing"]
    /\ errLog' = [errLog EXCEPT ![j] = NoError]
    /\ Emit("active", j, deliveries[j] + 1, <<>>)
    /\ UNCHANGED <<products, failedReason, gatewayKeys, charges,
                   orders, orderItems, subscriptions, consoleErr, notified>>
    /\ UNCHANGED apiVars

\* The lock of an active job is lost (the worker died or stalled between
\* two steps): the run makes no further call and the queue puts the job
\* back to be delivered again.
Stall(j) ==
    /\ jobState[j] = "active"
    /\ MayRedeliver(j)
    /\ jobState' = [jobState EXCEPT ![j] = "waiting"]
    /\ pc' = [pc EXCEPT ![j] = "idle"]
    /\ UNCHANGED <<products, deliveries, history, errLog, failedReason,
                   gatewayKeys, charges, hpc, orders, orderItems,
                   subscriptions, consoleErr, notified>>
    /\ UNCHANGED apiVars

\* A product row is deleted (by the catalogue, outside the worker).
DeleteProduct(p) ==
    /\ p \in products
    /\ products' = products \ {p}
    /\ UNCHANGED <<jobState, deliveries, pc, history, errLog, failedReason,
                   gatewayKeys, charges, hpc, orders, orderItems,
                   subscriptions, consoleErr, notified>>
    /\ UNCHANGED apiVars

(* ----------------------------- the processor --------------------------- *)

\* The processor's catch block: logs the error it caught and throws
\* ProcessorCatch(e) in its place.  The queue records the thrown error as
\* the job's failure, emits 'failed' (whose handler only logs), and either
\* keeps the job failed or, when the job has attempts left, delivers it
\* again.  (A processor that ends without throwing completes the job.)
\* `hist` is the run's steps up to the failure.
Throw(j, e, retry, hist) ==
    /\ errLog' = [errLog EXCEPT ![j] = e]
    /\ IF CatchRethrows
       THEN /\ failedReason' = [failedReason EXCEPT ![j] = ProcessorCatch(e)]
            /\ retry => MayRedeliver(j)
            /\ jobState' = [jobState EXCEPT ![j] =
                              IF retry THEN "waiting" ELSE "failed"]
            /\ pc' = [pc EXCEPT ![j] = IF retry THEN "idle" ELSE "done"]
            /\ Emit("failed", j, deliveries[j], hist)
       ELSE /\ ~retry
            /\ failedReason' = failedReason
            /\ jobState' = [jobState EXCEPT ![j] = "completed"]
            /\ pc' = [pc EXCEPT ![j] = "done"]
            /\ Emit("completed", j, deliveries[j], hist)
    /\ UNCHANGED notified

\* Product.findByPk for every item: every product found, or
\* ProductNotFoundError.
Pricing(j) ==
    /\ pc[j] = "pricing"
    /\ UNCHANGED <<products, deliveries, gatewayKeys, charges, orders,
                   orderItems, subscriptions, consoleErr>>
    /\ UNCHANGED apiVars
    /\ IF ItemsOf(j) \subseteq products
       THEN /\ pc' = [pc EXCEPT ![j] = AfterPricing]
            /\ history' = [history EXCEPT ![j] = Append(@, "priced")]
            /\ UNCHANGED <<jobState, errLog, failedReason, notified, hpc>>
       ELSE \E retry \in BOOLEAN :
                Throw(j, "ProductNotFoundError", retry, history[j])

\* shippingService.calculateShippingCost(country, 'next-day', undefined,
\* items): sums the products' weights, so it fails with
\* ProductNotFoundError when an item's product is gone.
Shipping(j) ==
    /\ pc[j] = "shipping"
    /\ UNCHANGED <<products, deliveries, gatewayKeys, charges, orders,
                   orderItems, subscriptions, consoleErr>>
    /\ UNCHANGED apiVars
    /\ IF ItemsOf(j) \subseteq products
       THEN /\ pc' = [pc EXCEPT ![j] = "charging"]
            /\ history' = [history EXCEPT ![j] = Append(@, "quoted")]
            /\ UNCHANGED <<jobState, errLog, failedReason, notified, hpc>>
       ELSE \E retry \in BOOLEAN :
                Throw(j, "ProductNotFoundError", retry, history[j])

\* The gateway behind paymentService.createPaymentIntent: a request whose
\* idempotency key it has stored is answered with the stored confirmation;
\* any other request creates a charge or is refused.
GatewayCharge(j, key, ok) ==
    IF key # NoKey /\ key \in gatewayKeys
    THEN UNCHANGED <<gatewayKeys, charges>>
    ELSE IF ok
         THEN /\ charges' = [charges EXCEPT ![j] = @ + 1]
              /\ gatewayKeys' = IF key = NoKey THEN gatewayKeys
                                ELSE gatewayKeys \cup {key}
         ELSE UNCHANGED <<gatewayKeys, charges>>

GatewayAnswersOk(key, ok) == ok \/ (key # NoKey /\ key \in gatewayKeys)

\* await paymentService.createPaymentIntent(userId, totalAmount, currency,
\* paymentMethodId)
Charge(j) ==
    /\ pc[j] = "charging"
    /\ UNCHANGED <<products, deliveries, orders, orderItems, subscriptions,
                   consoleErr>>
    /\ UNCHANGED apiVars
    /\ \E outcome \in {"ok"} \cup ChargeErrors :
        LET ok == outcome = "ok"
            key == IdempotencyKey(j)
        IN /\ GatewayCharge(j, key, ok)
           /\ IF GatewayAnswersOk(key, ok)
              THEN /\ pc' = [pc EXCEPT ![j] = "charged"]
                   /\ history' = [history EXCEPT ![j] =
                                    @ \o <<"chargeAttempted", "confirmed">>]
                   /\ UNCHANGED <<jobState, errLog, failedReason, notified,
                                  hpc>>
              ELSE \E retry \in BOOLEAN :
                       Throw(j, outcome, retry,
                             Append(history[j], "chargeAttempted"))

\* processPayment returns the weight range; the queue moves the job to
\* completed and emits 'completed' with the return value.
Return(j) ==
    /\ pc[j] = "charged"
    /\ jobState' = [jobState EXCEPT ![j] = "completed"]
    /\ pc' = [pc EXCEPT ![j] = "done"]
    /\ Emit("completed", j, deliveries[j], history[j])
    /\ UNCHANGED <<products, deliveries, errLog, failedReason, gatewayKeys,
                   charges, orders, orderItems, subscriptions, consoleErr,
                   notified>>
    /\ UNCHANGED apiVars

(* ------------------------ the 'completed' handler ---------------------- *)

\* catch (error) { await transaction.rollback(); console.error(...);
\* // Notify admins }: nothing the transaction wrote stays, the error is
\* logged, and the job's state in the queue is left as it is.
HandlerCatch(j, d, step) ==
    /\ hpc' = [hpc EXCEPT ![j][d] = "rolledBack"]
    /\ consoleErr' = consoleErr \cup {<<j, d, step>>}
    /\ UNCHANGED <<jobState, notified>>

\* orderService.createOrder(userId, items, paymentMethod, country,
\* returnValue, 'next-day', transaction): checks that every product
\* exists, then writes the Order and its OrderItems under the transaction
\* it was given; without one it commits them itself.
CreateOrder(j, d) ==
    /\ hpc[j][d] = "open"
    /\ UNCHANGED <<products, deliveries, pc, history, errLog, failedReason,
                   gatewayKeys, charges, subscriptions>>
    /\ UNCHANGED apiVars
    /\ \E dbOk \in BOOLEAN :
        IF dbOk /\ ItemsOf(j) \subseteq products
        THEN /\ hpc' = [hpc EXCEPT ![j][d] = "orderCreated"]
             /\ IF OrderTransaction(j, d) = NoTx
                THEN /\ orders' = orders \cup {<<j, d>>}
                     /\ orderItems' = orderItems \cup
                                        {<<j, d, p>> : p \in ItemsOf(j)}
                ELSE UNCHANGED <<orders, orderItems>>
             /\ UNCHANGED <<consoleErr, jobState, notified>>
        ELSE /\ HandlerCatch(j, d, "createOrder")
             /\ UNCHANGED <<orders, orderItems>>

\* await Subscription.create(subscriptionData, { transaction })
CreateSubscription(j, d) ==
    /\ hpc[j][d] = "orderCreated"
    /\ UNCHANGED <<products, deliveries, pc, history, errLog, failedReason,
                   gatewayKeys, charges, orders, orderItems, subscriptions>>
    /\ UNCHANGED apiVars
    /\ \E dbOk \in BOOLEAN :
        IF dbOk
        THEN /\ hpc' = [hpc EXCEPT ![j][d] = "subCreated"]
             /\ UNCHANGED <<consoleErr, jobState, notified>>
        ELSE HandlerCatch(j, d, "Subscription.create")

\* await transaction.commit(): the rows written under the transaction
\* become visible together.
Commit(j, d) ==
    /\ hpc[j][d] = "subCreated"
    /\ UNCHANGED <<products, deliveries, pc, history, errLog, failedReason,
                   gatewayKeys, charges>>
    /\ UNCHANGED apiVars
    /\ \E dbOk \in BOOLEAN :
        IF dbOk
        THEN /\ hpc' = [hpc EXCEPT ![j][d] = "committed"]
             /\ orders' = orders \cup {<<j, d>>}
             /\ orderItems' = orderItems \cup {<<j, d, p>> : p \in ItemsOf(j)}
             /\ subscriptions' = subscriptions \cup {<<j, d>>}
             /\ UNCHANGED <<consoleErr, jobState, notified>>
        ELSE /\ HandlerCatch(j, d, "commit")
             /\ UNCHANGED <<orders, orderItems, subscriptions>>

Next ==
    \/ \E j \in Jobs : Fetch(j)
    \/ \E j \in Jobs : Stall(j)
    \/ \E p \in Products : DeleteProduct(p)
    \/ \E j \in Jobs : Pricing(j)
    \/ \E j \in Jobs : Shipping(j)
    \/ \E j \in Jobs : Charge(j)
    \/ \E j \in Jobs : Return(j)
    \/ \E j \in Jobs, d \in Deliveries : CreateOrder(j, d)
    \/ \E j \in Jobs, d \in Deliveries : CreateSubscription(j, d)
    \/ \E j \in Jobs, d \in Deliveries : Commit(j, d)

Spec == Init /\ [][Next]_vars


(* ------------------------------ properties ----------------------------- *)

\* handler runs of job j that are between opening and finishing their
\* transaction
Persisting(j) ==
    {d \in Deliveries : hpc[j][d] \in {"open", "orderCreated", "subCreated"}}

OrdersOf(j) == {d \in Deliveries : <<j, d>> \in orders}
SubscriptionsOf(j) == {d \in Deliveries : <<j, d>> \in subscriptions}

IsPrefix(s, t) == Len(s) <= Len(t) /\ \A i \in 1..Len(s) : s[i] = t[i]

\* the steps of one run in the order the pipeline prescribes
PipelineOrder ==
    <<"priced", "quoted", "chargeAttempted", "confirmed", "persisting">>

\* C1: the persisting handler runs, and an Order or Subscription exists,
\* only for a job whose current run got its payment confirmation and
\* caught no error, and for which the gateway holds a charge.
C1_PersistOnlyAfterCapture ==
    \A j \in Jobs : \A d \in Deliveries :
        (hpc[j][d] # "idle" \/ <<j, d>> \in orders \/ <<j, d>> \in subscriptions)
            => /\ charges[j] >= 1
               /\ errLog[j] = NoError
               /\ \E i \in 1..Len(history[j]) : history[j][i] = "confirmed"

C1_Witness ==
    \E j \in Jobs : \E d \in Deliveries :
        <<j, d>> \in orders /\ <<j, d>> \in subscriptions /\ charges[j] >= 1

\* C2: the gateway creates at most one charge per job id, however often
\* the job is delivered.
C2_AtMostOneChargePerJob == \A j \in Jobs : charges[j] <= 1

\* C3: at most one Order and one Subscription per job id, and never two
\* persisting steps of one job at the same time.
C3_OneOrderPerJob ==
    \A j \in Jobs :
        /\ Cardinality(OrdersOf(j)) <= 1
        /\ Cardinality(SubscriptionsOf(j)) <= 1
        /\ Cardinality(Persisting(j)) <= 1

C3_Witness ==
    \E j \in Jobs : deliveries[j] >= 2 /\ Cardinality(OrdersOf(j)) = 1

\* C4: when persisting fails after the charge, the job ends failed and an
\* admin notification is sent for it.
C4_PersistFailureSurfaced ==
    \A j \in Jobs : \A d \in Deliveries :
        (hpc[j][d] = "rolledBack" /\ charges[j] >= 1)
            => jobState[j] = "failed" /\ j \in notified

\* C5: an Order is committed exactly when its Subscription is, OrderItems
\* exist only with their Order, and a handler run that failed leaves no
\* row of its own.
C5_OrderSubscriptionAtomic ==
    /\ \A j \in Jobs : \A d \in Deliveries :
        /\ <<j, d>> \in orders <=> <<j, d>> \in subscriptions
        /\ hpc[j][d] = "rolledBack" =>
              /\ <<j, d>> \notin orders
              /\ <<j, d>> \notin subscriptions
              /\ \A p \in Products : <<j, d, p>> \notin orderItems
    /\ \A r \in orderItems : <<r[1], r[2]>> \in orders

C5_Witness ==
    \E j \in Jobs : \E d \in Deliveries :
        /\ <<j, d, "Subscription.create">> \in consoleErr
        /\ hpc[j][d] = "rolledBack"

\* C6: the steps of a run happen in the order priced, quoted, charge
\* attempted, charge confirmed, persisting.
C6_StepOrder == \A j \in Jobs : IsPrefix(history[j], PipelineOrder)

C6_Witness == \E j \in Jobs : history[j] = PipelineOrder

\* C7: a job that met a missing product is reported failed with
\* ProductNotFoundError, attempted no charge in that run and has no Order.
C7_MissingProductReported ==
    \A j \in Jobs :
        errLog[j] = "ProductNotFoundError"
            => /\ failedReason[j] = "ProductNotFoundError"
               /\ \A i \in 1..Len(history[j]) : history[j][i] # "chargeAttempted"
               /\ OrdersOf(j) = {}

\* C8: the failure the worker reports for a declined or invalid payment
\* method differs from the one it reports for an unavailable gateway.
C8_ChargeFailuresClassified ==
    \A j \in Jobs : \A k \in Jobs :
        (/\ errLog[j] \in {"PaymentDeclinedError", "InvalidPaymentMethodError"}
         /\ errLog[k] = "GatewayUnavailableError")
            => failedReason[j] # failedReason[k]

\* C9: a completed job has its Order.
C9_CompletedHasOrder ==
    \A j \in Jobs : jobState[j] = "completed" => OrdersOf(j) # {}

\* C10: the worker never runs more than `concurrency` processors.
C10_InFlightBounded == Cardinality(InFlight) <= concurrency

C10_Witness ==
    /\ Cardinality(InFlight) = concurrency
    /\ \E j \in Jobs : jobState[j] = "waiting" /\ deliveries[j] = 0

(* ------------------- the amount processPayment submits ----------------- *)

\* Money is counted in thousandths of the currency unit, so that a sum
\* can fall between two cents.

\* most items in a job payload, and the largest quantity of an item
MaxItems == 2
MaxQuantity == 2

PriceValues == {1005, 20000}
QuoteValues == {0, 9990, 9998}

RECURSIVE SeqsUpTo(_, _)
SeqsUpTo(S, n) ==
    IF n = 0 THEN {<<>>}
    ELSE LET shorter == SeqsUpTo(S, n - 1)
         IN shorter \cup {Append(q, x) : q \in {r \in shorter : Len(r) = n - 1},
                                         x \in S}

\* job.data.orderItems
OrderItemLists ==
    SeqsUpTo([productId : Products, quantity : 1..MaxQuantity], MaxItems)
        \ {<<>>}

\* prices.reduce((acc, price) => acc + price, 0) over
\* product.price * item.quantity
RECURSIVE ProductTotal(_, _)
ProductTotal(items, price) ==
    IF items = <<>> THEN 0
    ELSE ProductTotal(SubSeq(items, 1, Len(items) - 1), price)
         + price[items[Len(items)].productId] * items[Len(items)].quantity

\* parseFloat(x.toFixed(2)): the number with two decimals nearest to x.
\* x is a binary floating-point number: a sum that is half way between
\* two cents in decimal lies just below or just above the half in binary,
\* so either neighbour can come out.  The result is a set.
ToFixed2Mut(x) == {(x \div 10) * 10}
ToFixed2(x) ==
    IF x % 10 = 5 THEN {x - 5, x + 5} ELSE {((x + 5) \div 10) * 10}

\* totalAmount = parseFloat((productTotal + shippingCost).toFixed(2))
TotalAmount(items, price, shippingCost) ==
    ToFixed2(ProductTotal(items, price) + shippingCost)

AmountInit ==
    /\ amtIn \in [items : OrderItemLists,
                  price : [Products -> PriceValues],
                  shippingCost : QuoteValues]
    /\ amtOut = <<>>

\* processPayment up to the call of createPaymentIntent, for a payload
\* whose products all exist
SubmitAmount ==
    /\ amtIn # NoPayload
    /\ amtOut = <<>>
    /\ \E a \in TotalAmount(amtIn.items, amtIn.price, amtIn.shippingCost) :
           amtOut' = <<a>>
    /\ UNCHANGED <<amtIn, workerVars, cartVars, orderVars, restVars>>

InitAmount ==
    WorkerInit /\ CartInit /\ OrderInit /\ RestIdle /\ AmountInit

SpecAmount == InitAmount /\ [][SubmitAmount]_vars

RECURSIVE ExactSum(_, _)
ExactSum(in, i) ==
    IF i = 0 THEN in.shippingCost
    ELSE ExactSum(in, i - 1)
         + in.price[in.items[i].productId] * in.items[i].quantity

\* C11: the amount submitted is the sum of price x quantity over the items
\* plus the shipping cost, rounded to a nearest cent.
C11_AmountRounded ==
    amtOut # <<>> =>
        LET exact == ExactSum(amtIn, Len(amtIn.items))
        IN /\ amtOut[1] % 10 = 0
           /\ exact - 5 <= amtOut[1]
           /\ amtOut[1] <= exact + 5

\* two units priced 20.00 plus 9.99 shipping are charged 49.99
C11_Witness ==
    /\ amtIn.items = <<[productId |-> 1, quantity |-> 2]>>
    /\ amtIn.price[1] = 20000
    /\ amtIn.shippingCost = 9990
    /\ amtOut = <<49990>>

(* ------------------------------ CartService ---------------------------- *)

\* CartService calls made in one run
MaxCalls == 3

Customers == {1, 2, 3}

\* quantities asked for (the route's validator admits integers >= 1)
AddQuantities == {1, 2}

\* Cart table: customers 1 and 2 own a cart, customer 3 owns none
NoCart == 0
CartIdOf(c) == IF c \in {1, 2} THEN c ELSE NoCart

\* the condition under which addItemToCart updates the item it got from
\* findOrCreate: if (!created)
MergesAfterMut(created) == created
MergesAfter(created) == ~created

\* the condition under which removeItemFromCart decrements the row
\* instead of destroying it: if (item.quantity > 1)
DecrementsRowMut(quantity) == quantity > 0
DecrementsRow(quantity) == quantity > 1

\* where: { productId } of the findOrCreate in addItemToCart
AddWhere(cartId, p) == {r \in cartItems : r.productId = p}

\* where: { cartId: cart.id, productId } of the findOne in
\* removeItemFromCart
RemoveWhere(cartId, p) ==
    {r \in cartItems : r.cartId = cartId /\ r.productId = p}

InProgress(k) == calls[k].pc \notin {"idle", "done"}

\* a step of call k overlaps every other call in progress
Overlap(k, new) ==
    [j \in Callers |->
        IF j = k THEN new
        ELSE IF InProgress(j) THEN [calls[j] EXCEPT !.alone = FALSE]
        ELSE calls[j]]

Begin(k, op, c, p, q) ==
    [NoCall EXCEPT !.op = op, !.customer = c, !.product = p, !.quantity = q,
                   !.alone = \A j \in Callers \ {k} : ~InProgress(j)]

Finish(call, result) == [call EXCEPT !.pc = "done", !.result = result]

\* UPDATE ... SET quantity = q WHERE id = id: changes the row if it is
\* still there
UpdateQuantity(id, q) ==
    {IF r.id = id THEN [r EXCEPT !.quantity = q] ELSE r : r \in cartItems}

\* addItemToCart, up to the lookup inside findOrCreate: the cart of the
\* customer, then a CartItem matching the where clause
AddFind(k, c, p, q) ==
    /\ ~InProgress(k)
    /\ started < MaxCalls
    /\ started' = started + 1
    /\ customersSeen' = customersSeen \cup {c}
    /\ LET call == Begin(k, "add", c, p, q)
       IN IF CartIdOf(c) = NoCart
          THEN /\ calls' = Overlap(k, Finish(call, "CartNotFoundError"))
               /\ added' = added
          ELSE IF AddWhere(CartIdOf(c), p) = {}
               THEN /\ calls' = Overlap(k, [call EXCEPT !.pc = "create"])
                    /\ added' = added
               ELSE \E r \in AddWhere(CartIdOf(c), p) :
                      LET found == [call EXCEPT !.item = r.id,
                                                !.qtyRead = r.quantity]
                      IN IF MergesAfter(FALSE)
                         THEN /\ calls' = Overlap(k, [found EXCEPT
                                                        !.pc = "merge"])
                              /\ added' = added
                         ELSE /\ calls' = Overlap(k, Finish(found, "ok"))
                              /\ added' = [added EXCEPT ![p] = @ + q]
    /\ UNCHANGED <<cartItems, nextRowId, destroying, nonAddSeen>>
    /\ UNCHANGED <<workerVars, amountVars, orderVars, restVars>>

\* findOrCreate found no row and inserts one from its defaults
AddCreate(k) ==
    /\ calls[k].pc = "create"
    /\ \E dbOk \in BOOLEAN :
        LET call == calls[k]
            row == [id |-> nextRowId, cartId |-> CartIdOf(call.customer),
                    productId |-> call.product, quantity |-> call.quantity]
            made == [call EXCEPT !.item = row.id, !.qtyRead = row.quantity,
                                 !.writes = Append(@, [kind |-> "insert", id |-> row.id,
                                               quantity |-> row.quantity])]
        IN IF dbOk
           THEN /\ cartItems' = cartItems \cup {row}
                /\ nextRowId' = nextRowId + 1
                /\ IF MergesAfter(TRUE)
                   THEN /\ calls' = Overlap(k, [made EXCEPT !.pc = "merge"])
                        /\ added' = added
                   ELSE /\ calls' = Overlap(k, Finish(made, "ok"))
                        /\ added' = [added EXCEPT ![call.product] =
                                        @ + call.quantity]
           ELSE /\ calls' = Overlap(k, Finish(call, "DbError"))
                /\ UNCHANGED <<cartItems, nextRowId, added>>
    /\ UNCHANGED <<destroying, started, customersSeen, nonAddSeen>>
    /\ UNCHANGED <<workerVars, amountVars, orderVars, restVars>>

\* item.quantity += quantity; await item.save()
AddSave(k) ==
    /\ calls[k].pc = "merge"
    /\ \E dbOk \in BOOLEAN :
        LET call == calls[k]
            q == call.qtyRead + call.quantity
            write == [kind |-> "update", id |-> call.item, quantity |-> q]
        IN IF dbOk
           THEN /\ cartItems' = UpdateQuantity(call.item, q)
                /\ calls' = Overlap(k, Finish([call EXCEPT !.writes =
                                                  Append(@, write)], "ok"))
                /\ added' = [added EXCEPT ![call.product] = @ + call.quantity]
           ELSE /\ calls' = Overlap(k, Finish(call, "DbError"))
                /\ UNCHANGED <<cartItems, added>>
    /\ UNCHANGED <<nextRowId, destroying, started, customersSeen, nonAddSeen>>
    /\ UNCHANGED <<workerVars, amountVars, orderVars, restVars>>

\* removeItemFromCart, up to the findOne of the item
RemoveFind(k, c, p) ==
    /\ ~InProgress(k)
    /\ started < MaxCalls
    /\ started' = started + 1
    /\ customersSeen' = customersSeen \cup {c}
    /\ nonAddSeen' = TRUE
    /\ LET call == Begin(k, "remove", c, p, 0)
       IN IF CartIdOf(c) = NoCart
          THEN calls' = Overlap(k, Finish(call, "CartNotFoundError"))
          ELSE IF RemoveWhere(CartIdOf(c), p) = {}
               THEN calls' = Overlap(k, Finish(call, "CartItemNotFoundError"))
               ELSE \E r \in RemoveWhere(CartIdOf(c), p) :
                      calls' = Overlap(k, [call EXCEPT !.pc = "unmerge",
                                                       !.item = r.id,
                                                       !.qtyRead = r.quantity])
    /\ UNCHANGED <<cartItems, nextRowId, destroying, added>>
    /\ UNCHANGED <<workerVars, amountVars, orderVars, restVars>>

\* if (item.quantity > 1) { item.quantity -= 1; await item.save(); }
\* else { item.destroy(); await item.save(); }
\* destroy() is not awaited and the save() that is awaited has nothing to
\* write: when the call returns the DELETE has been carried out or is
\* still on its way.
RemoveWrite(k) ==
    /\ calls[k].pc = "unmerge"
    /\ LET call == calls[k]
       IN IF DecrementsRow(call.qtyRead)
          THEN \E dbOk \in BOOLEAN :
                 LET write == [kind |-> "update", id |-> call.item,
                               quantity |-> call.qtyRead - 1]
                 IN IF dbOk
                    THEN /\ cartItems' =
                              UpdateQuantity(call.item, call.qtyRead - 1)
                         /\ calls' = Overlap(k, Finish([call EXCEPT !.writes =
                                                  Append(@, write)], "ok"))
                         /\ UNCHANGED destroying
                    ELSE /\ calls' = Overlap(k, Finish(call, "DbError"))
                         /\ UNCHANGED <<cartItems, destroying>>
          ELSE /\ calls' = Overlap(k, Finish(call, "ok"))
               /\ \E deleted \in BOOLEAN :
                    IF deleted
                    THEN /\ cartItems' = {r \in cartItems : r.id # call.item}
                         /\ UNCHANGED destroying
                    ELSE /\ destroying' = destroying \cup {call.item}
                         /\ UNCHANGED cartItems
    /\ UNCHANGED <<nextRowId, started, added, customersSeen, nonAddSeen>>
    /\ UNCHANGED <<workerVars, amountVars, orderVars, restVars>>

\* the DELETE of a destroy() that was not awaited is carried out, or fails
\* with nobody to catch it
DestroyCompletes(id) ==
    /\ id \in destroying
    /\ destroying' = destroying \ {id}
    /\ \E dbOk \in BOOLEAN :
        cartItems' = IF dbOk THEN {r \in cartItems : r.id # id} ELSE cartItems
    /\ calls' = [j \in Callers |->
                   IF InProgress(j) THEN [calls[j] EXCEPT !.alone = FALSE]
                   ELSE calls[j]]
    /\ UNCHANGED <<nextRowId, started, added, customersSeen, nonAddSeen>>
    /\ UNCHANGED <<workerVars, amountVars, orderVars, restVars>>

\* where: { cartId: cart.id } of the destroy in clearCart
ClearWhereMut(cartId) == cartItems
ClearWhere(cartId) == {r \in cartItems : r.cartId = cartId}

\* clearCart: CartItem.destroy({ where: { cartId: cart.id } })
ClearCart(k, c) ==
    /\ ~InProgress(k)
    /\ started < MaxCalls
    /\ started' = started + 1
    /\ customersSeen' = customersSeen \cup {c}
    /\ nonAddSeen' = TRUE
    /\ LET call == Begin(k, "clear", c, 0, 0)
       IN IF CartIdOf(c) = NoCart
          THEN /\ calls' = Overlap(k, Finish(call, "CartNotFoundError"))
               /\ UNCHANGED cartItems
          ELSE /\ calls' = Overlap(k, Finish(call, "ok"))
               /\ cartItems' = cartItems \ ClearWhere(CartIdOf(c))
    /\ UNCHANGED <<nextRowId, destroying, added>>
    /\ UNCHANGED <<workerVars, amountVars, orderVars, restVars>>

CartNext ==
    \/ \E k \in Callers, c \in Customers, p \in Products, q \in AddQuantities :
          AddFind(k, c, p, q)
    \/ \E k \in Callers : AddCreate(k)
    \/ \E k \in Callers : AddSave(k)
    \/ \E k \in Callers, c \in Customers, p \in Products : RemoveFind(k, c, p)
    \/ \E k \in Callers : RemoveWrite(k)
    \/ \E id \in destroying : DestroyCompletes(id)
    \/ \E k \in Callers, c \in Customers : ClearCart(k, c)

InitCart ==
    WorkerInit /\ AmountIdle /\ OrderInit /\ RestIdle /\ CartInit

SpecCart == InitCart /\ [][CartNext]_vars

\* the CartItems of product p in the cart of customer c, in a CartItem
\* table
OwnItems(table, c, p) ==
    {r \in table : r.cartId = CartIdOf(c) /\ r.productId = p}

RECURSIVE SumQuantity(_)
SumQuantity(rows) ==
    IF rows = {} THEN 0
    ELSE LET r == CHOOSE x \in rows : TRUE
         IN r.quantity + SumQuantity(rows \ {r})

\* call k returns in this step, having overlapped no other call
ReturnsAlone(k, op) ==
    /\ calls'[k].op = op
    /\ calls'[k].pc = "done"
    /\ calls[k].pc # "done" \/ calls[k] # calls'[k]
    /\ calls'[k].alone

\* C12: no cart holds two CartItems of the same product.
C12_OneItemPerProduct ==
    \A r1 \in cartItems : \A r2 \in cartItems :
        (r1.cartId = r2.cartId /\ r1.productId = r2.productId) => r1 = r2

\* C13: an addItemToCart(c, p, q) that returns true, run on its own,
\* leaves exactly one CartItem of p in the cart of c: with quantity q when
\* the cart held none, with quantity n + q when it held one of quantity n.
C13_AddTwiceSums ==
    [][\A k \in Callers :
        (ReturnsAlone(k, "add") /\ calls'[k].result = "ok") =>
            LET c == calls'[k].customer
                p == calls'[k].product
                q == calls'[k].quantity
                before == OwnItems(cartItems, c, p)
                after == OwnItems(cartItems', c, p)
            IN /\ before = {} =>
                    \E r \in after : after = {r} /\ r.quantity = q
               /\ \A b \in before : before = {b} =>
                    \E r \in after : after = {r} /\ r.quantity = b.quantity + q
      ]_vars

\* C14: when one customer has only added items and every call has
\* returned, the quantity stored for a product is the sum of the
\* quantities added, as it is when the calls run one after the other.
C14_NoLostUpdate ==
    (/\ \A k \in Callers : ~InProgress(k)
     /\ ~nonAddSeen
     /\ Cardinality(customersSeen) <= 1)
        => \A p \in Products :
              SumQuantity({r \in cartItems : r.productId = p}) = added[p]

\* C15: a removeItemFromCart run on its own leaves quantity n - 1 in a row
\* of quantity n > 1, has deleted a row of quantity 1 when it returns, and
\* changes nothing when it fails with CartItemNotFoundError.
C15_RemoveDecrementsOrDeletes ==
    [][\A k \in Callers :
        ReturnsAlone(k, "remove") =>
            LET call == calls'[k]
                rowAfter == {r \in cartItems' : r.id = call.item}
            IN /\ (call.result = "ok" /\ call.qtyRead > 1) =>
                    \E r \in rowAfter : r.quantity = call.qtyRead - 1
               /\ (call.result = "ok" /\ call.qtyRead = 1) => rowAfter = {}
               /\ call.result = "CartItemNotFoundError" =>
                    cartItems' = cartItems
      ]_vars

\* C16: every stored CartItem has a quantity of at least 1.
C16_QuantityPositive == \A r \in cartItems : r.quantity >= 1

C16_Witness ==
    \E k \in Callers :
        /\ calls[k].op = "remove"
        /\ calls[k].pc = "done"
        /\ calls[k].result = "ok"
        /\ calls[k].qtyRead = 1
        /\ \A r \in cartItems : r.id # calls[k].item

\* C17: an addItemToCart that failed wrote no row (and it fails with
\* CartNotFoundError when the customer has no cart); one that returned
\* true wrote exactly one row: the new item with the quantity asked for,
\* or the item found with the quantity asked for added to it.
C17_AddAllOrNothing ==
    \A k \in Callers :
        (calls[k].op = "add" /\ calls[k].pc = "done") =>
            LET call == calls[k]
            IN /\ CartIdOf(call.customer) = NoCart
                    => call.result = "CartNotFoundError"
               /\ call.result # "ok" => call.writes = <<>>
               /\ call.result = "ok" =>
                    /\ Len(call.writes) = 1
                    /\ \/ /\ call.writes[1].kind = "insert"
                          /\ call.writes[1].quantity = call.quantity
                       \/ /\ call.writes[1].kind = "update"
                          /\ call.writes[1].quantity
                                = call.qtyRead + call.quantity

C17_Witness ==
    \E k \in Callers :
        /\ calls[k].op = "add"
        /\ calls[k].pc = "done"
        /\ calls[k].result = "DbError"
        /\ calls[k].item # 0

(* ------------------- OrderController and OrderService ------------------ *)

MaxOrders == 2

OrderIds == 1..MaxOrders

\* userId of the token: users 1 and 2 exist, user 3 has been deleted
UserIds == {1, 2, 3}
UserExists(u) == u \in {1, 2}

\* a product id no Product row has
UnknownProduct == 3

\* req.body.items: the product ids the items reference
RequestItems == {{1}, {1, 2}, {2, UnknownProduct}}

DbError == "Error"

\* the row of an order in an Order table, and its status
RowsOf(rows, id) == {r \in rows : r.id = id}
StatusIn(rows, id) ==
    IF RowsOf(rows, id) = {} THEN "absent"
    ELSE (CHOOSE r \in RowsOf(rows, id) : TRUE).status

SetStatus(id, status) ==
    {IF r.id = id THEN [r EXCEPT !.status = status] ELSE r : r \in orderRows}

\* OrderService.createOrder: every product of the items must exist, the
\* customer must exist
CreateOrderError(userId, items, catalog) ==
    IF ~(items \subseteq catalog) THEN "ProductNotFoundError"
    ELSE IF ~UserExists(userId) THEN "UserNotFoundError"
    ELSE NoError

\* OrderService.markAsDelivered(orderId) on an order of the given status:
\* the errors it may fail with, NoError where it makes the transition
MarkAsDeliveredErrors(status) ==
    CASE status = "absent" -> {"OrderNotFoundError"}
      [] status = "delivered" -> {"OrderAlreadyMarkedError"}
      [] status = "pending" -> {NoError}
      [] OTHER -> {"OrderNotFoundError", "OrderAlreadyMarkedError", DbError}

\* OrderService.cancelOrder(customerId, orderId): permitted only while the
\* order is pending and is the customer's
CancelOrderErrors(customerId, orderId) ==
    LET rows == RowsOf(orderRows, orderId)
    IN IF rows = {} THEN {"OrderNotFoundError"}
       ELSE IF \E r \in rows : r.customerId = customerId /\ r.status = "pending"
            THEN {NoError}
            ELSE {"OrderNotFoundError", DbError}

\* the status createOrder answers with: 201, or the catch block's mapping
CreateOrderStatusMut(error) ==
    IF error = NoError THEN 201
    ELSE IF error = "UserNotFoundError" THEN 404
    ELSE 500
CreateOrderStatus(error) ==
    IF error = NoError THEN 201
    ELSE IF error = "UserNotFoundError" THEN 404
    ELSE IF error = "ProductNotFoundError" THEN 404
    ELSE 500

\* the arguments cancelOrder hands to the service
CancelOrderArgsMut(userId, orderId) == <<orderId, userId>>
CancelOrderArgs(userId, orderId) == <<userId, orderId>>

\* the status cancelOrder answers with
CancelOrderStatus(error) ==
    IF error = NoError THEN 200
    ELSE IF error = "OrderNotFoundError" THEN 404
    ELSE 500

\* the status the catch block of markAsDelivered answers with
MarkAsDeliveredCatchMut(error) ==
    IF error = "OrderNotFoundError" THEN 404
    ELSE 500
MarkAsDeliveredCatch(error) ==
    IF error = "OrderNotFoundError" THEN 404
    ELSE IF error = "OrderAlreadyMarkedError" THEN 400
    ELSE 500

Request(op, userId, orderId, items, error, responses) ==
    [op |-> op, userId |-> userId, orderId |-> orderId, items |-> items,
     before |-> StatusIn(orderRows, orderId), error |-> error,
     responses |-> responses]

\* OrderController.createOrder: the service validates the items and the
\* customer, then writes the Order and its OrderItems in a transaction of
\* its own, which it commits, or rolls back when a write fails
PlaceOrder(userId, items) ==
    /\ nextOrderId <= MaxOrders
    /\ \E dbOk \in BOOLEAN :
        LET invalid == CreateOrderError(userId, items, products)
            error == IF invalid # NoError THEN invalid
                     ELSE IF dbOk THEN NoError ELSE DbError
        IN /\ lastRequest' = Request("createOrder", userId,
                                     IF error = NoError THEN nextOrderId
                                     ELSE 0,
                                     items, error,
                                     <<CreateOrderStatus(error)>>)
           /\ IF error = NoError
              THEN /\ orderRows' = orderRows \cup
                          {[id |-> nextOrderId, customerId |-> userId,
                            status |-> "pending"]}
                   /\ orderItemRows' = orderItemRows \cup
                          {<<nextOrderId, p>> : p \in items}
                   /\ nextOrderId' = nextOrderId + 1
              ELSE UNCHANGED <<orderRows, orderItemRows, nextOrderId>>
    /\ UNCHANGED <<workerVars, amountVars, cartVars, restVars>>

\* OrderController.markAsDelivered: the service call, sendStatus(204), then
\* the admin log; an error of either lands in the catch block, which
\* answers with MarkAsDeliveredCatch
MarkAsDelivered(orderId, logOk) ==
    /\ LET errors == MarkAsDeliveredErrors(StatusIn(orderRows, orderId))
       IN \E error \in IF NoError \in errors THEN errors \cup {DbError}
                       ELSE errors :
            IF error = NoError
            THEN /\ orderRows' = SetStatus(orderId, "delivered")
                 /\ lastRequest' =
                      Request("markAsDelivered", 0, orderId, {}, error,
                              IF logOk THEN <<204>>
                              ELSE <<204, MarkAsDeliveredCatch(DbError)>>)
            ELSE /\ orderRows' = orderRows
                 /\ lastRequest' =
                      Request("markAsDelivered", 0, orderId, {}, error,
                              <<MarkAsDeliveredCatch(error)>>)
    /\ UNCHANGED <<orderItemRows, nextOrderId>>
    /\ UNCHANGED <<workerVars, amountVars, cartVars, restVars>>

\* OrderController.cancelOrder
CancelOrder(userId, orderId) ==
    /\ LET args == CancelOrderArgs(userId, orderId)
           errors == CancelOrderErrors(args[1], args[2])
       IN \E error \in IF NoError \in errors THEN errors \cup {DbError}
                       ELSE errors :
            /\ orderRows' = IF error = NoError
                            THEN SetStatus(args[2], "cancelled")
                            ELSE orderRows
            /\ lastRequest' = Request("cancelOrder", userId, orderId, {},
                                      error, <<CancelOrderStatus(error)>>)
    /\ UNCHANGED <<orderItemRows, nextOrderId>>
    /\ UNCHANGED <<workerVars, amountVars, cartVars, restVars>>

OrdersNext ==
    \/ \E u \in UserIds, items \in RequestItems : PlaceOrder(u, items)
    \/ \E o \in OrderIds, logOk \in BOOLEAN : MarkAsDelivered(o, logOk)
    \/ \E u \in UserIds, o \in OrderIds : CancelOrder(u, o)

InitOrders ==
    WorkerInit /\ AmountIdle /\ CartInit /\ RestIdle /\ OrderInit

SpecOrders == InitOrders /\ [][OrdersNext]_vars

\* a request of the given kind is answered in this step
Answers(op) == lastRequest' # lastRequest /\ lastRequest'.op = op

\* C18: markAsDelivered on a pending order sets it to delivered and answers
\* 204; on a delivered order it fails with OrderAlreadyMarkedError, answered
\* 400; on a missing order it fails with OrderNotFoundError, answered 404;
\* no step takes a delivered order back to pending.
C18_DeliveredOnce ==
    [][/\ Answers("markAsDelivered") =>
            LET r == lastRequest'
                after == StatusIn(orderRows', r.orderId)
            IN /\ (r.before = "pending" /\ r.error # DbError) =>
                    /\ r.error = NoError
                    /\ after = "delivered"
                    /\ Head(r.responses) = 204
               /\ r.before = "delivered" =>
                    /\ r.error = "OrderAlreadyMarkedError"
                    /\ r.responses = <<400>>
                    /\ after = "delivered"
               /\ r.before = "absent" =>
                    /\ r.error = "OrderNotFoundError"
                    /\ r.responses = <<404>>
                    /\ orderRows' = orderRows
       /\ \A o \in OrderIds :
            StatusIn(orderRows, o) = "delivered" =>
                StatusIn(orderRows', o) # "pending"
      ]_vars

C18_Witness ==
    /\ lastRequest.op = "markAsDelivered"
    /\ lastRequest.before = "delivered"
    /\ lastRequest.responses = <<400>>
    /\ StatusIn(orderRows, lastRequest.orderId) = "delivered"

\* C20: a cancelOrder request cancels the order when it is pending and the
\* caller's; for any other order it fails and leaves every order as it
\* was; and no order becomes cancelled in any other way.
C20_CancelOnlyOwnPending ==
    [][/\ Answers("cancelOrder") =>
            LET r == lastRequest'
                own == \E row \in RowsOf(orderRows, r.orderId) :
                          row.customerId = r.userId
            IN /\ (r.before = "pending" /\ own /\ r.error # DbError) =>
                    /\ r.error = NoError
                    /\ StatusIn(orderRows', r.orderId) = "cancelled"
               /\ ~(r.before = "pending" /\ own) =>
                    /\ r.error # NoError
                    /\ r.responses # <<200>>
                    /\ orderRows' = orderRows
       /\ \A o \in OrderIds :
            (StatusIn(orderRows, o) # "cancelled"
                /\ StatusIn(orderRows', o) = "cancelled") =>
                    /\ Answers("cancelOrder")
                    /\ lastRequest'.orderId = o
                    /\ StatusIn(orderRows, o) = "pending"
                    /\ \E row \in RowsOf(orderRows, o) :
                          row.customerId = lastRequest'.userId
      ]_vars

C20_Witness ==
    /\ lastRequest.op = "cancelOrder"
    /\ lastRequest.error # NoError
    /\ \E row \in RowsOf(orderRows, lastRequest.orderId) :
          /\ row.customerId # lastRequest.userId
          /\ row.status = "pending"

(* --------------- createOrder with a product that is missing ------------ *)

\* the jobs whose order is being persisted
PersistingJobs == {1, 2}

\* The worker once the jobs of PersistingJobs have been priced and charged
\* and processPayment has returned for them: their 'completed' handlers
\* have opened their transactions and are about to call createOrder.  Any
\* other job is still waiting.
WorkerPersisting ==
    LET at(j, there, here) == IF j \in PersistingJobs THEN there ELSE here
    IN
    /\ products = Products
    /\ jobState = [j \in Jobs |-> at(j, "completed", "waiting")]
    /\ deliveries = [j \in Jobs |-> at(j, 1, 0)]
    /\ pc = [j \in Jobs |-> at(j, "done", "idle")]
    /\ history = [j \in Jobs |->
                    at(j, <<"priced", "quoted", "chargeAttempted",
                            "confirmed", "persisting">>, <<>>)]
    /\ errLog = [j \in Jobs |-> NoError]
    /\ failedReason = [j \in Jobs |-> NoError]
    /\ gatewayKeys = {}
    /\ charges = [j \in Jobs |-> at(j, 1, 0)]
    /\ hpc = [j \in Jobs |->
                [d \in Deliveries |->
                    IF d = 1 THEN at(j, "open", "idle") ELSE "idle"]]
    /\ orders = {}
    /\ orderItems = {}
    /\ subscriptions = {}
    /\ consoleErr = {}
    /\ notified = {}

InitCreateOrder == WorkerPersisting /\ ApiIdle

\* createOrder on its two paths, the handler's (inside the transaction the
\* handler opened) and the controller's, while products are being deleted
CreateOrderNext ==
    \/ \E p \in Products : DeleteProduct(p)
    \/ \E j \in Jobs, d \in Deliveries : CreateOrder(j, d)
    \/ \E j \in Jobs, d \in Deliveries : CreateSubscription(j, d)
    \/ \E j \in Jobs, d \in Deliveries : Commit(j, d)
    \/ \E u \in UserIds, items \in RequestItems : PlaceOrder(u, items)

SpecCreateOrder == InitCreateOrder /\ [][CreateOrderNext]_vars

\* C19: createOrder for items of which a product does not exist persists
\* no Order and no OrderItem.  On the controller's path it fails with
\* ProductNotFoundError, answered 404; on the handler's path the handler
\* rolls its transaction back, and nothing of that run is persisted later.
C19_MissingProductPersistsNothing ==
    [][/\ Answers("createOrder") =>
            LET r == lastRequest'
            IN ~(r.items \subseteq products) =>
                    /\ r.error = "ProductNotFoundError"
                    /\ r.responses = <<404>>
                    /\ orderRows' = orderRows
                    /\ orderItemRows' = orderItemRows
       /\ \A j \in Jobs : \A d \in Deliveries :
            /\ (/\ hpc[j][d] = "open"
                /\ hpc'[j][d] # "open"
                /\ ~(ItemsOf(j) \subseteq products)) =>
                    /\ hpc'[j][d] = "rolledBack"
                    /\ <<j, d, "createOrder">> \in consoleErr'
                    /\ orders' = orders
                    /\ orderItems' = orderItems
            /\ hpc[j][d] = "rolledBack" =>
                    /\ hpc'[j][d] = "rolledBack"
                    /\ <<j, d>> \notin orders'
                    /\ \A p \in Products : <<j, d, p>> \notin orderItems'
      ]_vars

C19_Witness ==
    /\ lastRequest.op = "createOrder"
    /\ lastRequest.error = "ProductNotFoundError"
    /\ \E j \in Jobs :
          /\ ~(ItemsOf(j) \subseteq products)
          /\ hpc[j][1] = "rolledBack"
          /\ <<j, 1, "createOrder">> \in consoleErr
          /\ <<j, 1>> \notin orders

(* --------------------- responses sent for one request ------------------ *)

\* C21: every request the OrderController has handled got exactly one
\* response: after its success response a handler sends no error response
\* for a failure of the admin log.
C21_OneResponsePerRequest ==
    lastRequest.op # "none" => Len(lastRequest.responses) = 1

(* ------------------------------ LoggingService ------------------------- *)

MaxLogs == 2

\* usernames of callers: "root" and "ops" are admins, "guest" is not
Usernames == {"root", "ops", "guest"}
NoAdmin == 0
AdminIdOf(username) ==
    CASE username = "root" -> 1
      [] username = "ops" -> 2
      [] OTHER -> NoAdmin

categories ==
    {"customer", "admin", "category", "product", "membership", "order",
     "shipping country", "shipping city", "shipping weight",
     "shipping method", "review", "rating", "sales report", "stock report"}

Targets == {"order", "customer", "invoice"}

\* opMap[operation]: undefined for an operation the map does not list
opMap(operation) ==
    CASE operation = "create" -> "created a new"
      [] operation = "update" -> "updated an existing"
      [] operation = "delete" -> "deleted an existing"
      [] OTHER -> "undefined"

Operations == {"create", "update", "delete", "archive"}

\* if (!categories.includes(target)) throw ...
IsListedMut(target) == TRUE
IsListed(target) == target \in categories

\* LoggingService.logOperation(username, target, operation)
LogOperation(username, target, operation) ==
    /\ Cardinality(adminLogs) < MaxLogs
    /\ \E dbOk \in BOOLEAN :
        LET admin == AdminIdOf(username)
            error == IF admin = NoAdmin THEN "UserNotFoundError"
                     ELSE IF ~IsListed(target)
                          THEN "AdminLogInvalidTargetError"
                     ELSE IF dbOk THEN NoError ELSE DbError
            row == [id |-> Cardinality(adminLogs) + 1, adminId |-> admin,
                    category |-> target,
                    log |-> <<username, opMap(operation), target>>]
        IN /\ adminLogs' = IF error = NoError THEN adminLogs \cup {row}
                           ELSE adminLogs
           /\ lastLog' = [username |-> username, target |-> target,
                          operation |-> operation, error |-> error,
                          created |-> IF error = NoError THEN {row.id}
                                      ELSE {}]
    /\ UNCHANGED <<listening, subVars>>
    /\ UNCHANGED <<workerVars, amountVars, cartVars, orderVars>>

LogNext ==
    \E username \in Usernames, target \in Targets, operation \in Operations :
        LogOperation(username, target, operation)

InitLog ==
    /\ WorkerInit /\ AmountIdle /\ CartInit /\ OrderInit
    /\ listening = TRUE /\ SubIdle /\ LogInit

SpecLog == InitLog /\ [][LogNext]_vars

\* C22: logOperation creates exactly one AdminLog row, of the admin and
\* the target, when the admin exists and the target is listed; otherwise
\* it throws UserNotFoundError (only when there is no such admin) or
\* AdminLogInvalidTargetError (only when the target is not listed) and
\* creates no row.  No call removes or changes a row.
C22_LogOperation ==
    [][lastLog' # lastLog =>
        LET call == lastLog'
            new == adminLogs' \ adminLogs
            admin == AdminIdOf(call.username) # NoAdmin
            listed == call.target \in categories
        IN /\ adminLogs \subseteq adminLogs'
           /\ (admin /\ listed /\ call.error # DbError) =>
                /\ call.error = NoError
                /\ \E r \in new :
                      /\ new = {r}
                      /\ r.adminId = AdminIdOf(call.username)
                      /\ r.category = call.target
           /\ (~admin /\ listed) => call.error = "UserNotFoundError"
           /\ (admin /\ ~listed) => call.error = "AdminLogInvalidTargetError"
           /\ (~admin \/ ~listed) =>
                /\ call.error \in {"UserNotFoundError",
                                   "AdminLogInvalidTargetError"}
                /\ new = {}
           /\ call.error = "UserNotFoundError" => ~admin
           /\ call.error = "AdminLogInvalidTargetError" => ~listed
      ]_vars

C22_Witness ==
    /\ lastLog.error = "AdminLogInvalidTargetError"
    /\ AdminIdOf(lastLog.username) # NoAdmin
    /\ Cardinality(adminLogs) = 1

(* ------------- what the worker persists for a charged job -------------- *)

MaxClock == 3

\* clock ticks in a day
TicksPerDay == 2

\* new Date(t).toISOString().split('T')[0]: the day a time falls on
DateOf(t) == t \div TicksPerDay

\* job.data: the customer, the quantity of each item, the shipping method,
\* the billing period (in ticks) and the subscription's dates (days)
UserOf(j) == j
QuantityOf(j, p) == 2
ShippingMethodOf(j) == IF j % 2 = 1 THEN "standard" ELSE "next-day"
PeriodOf(j) == j * TicksPerDay
StartDateOf(j) == (j + 1) % 2
EndDateOf(j) == StartDateOf(j) + 3 * j

\* the shipping method processPayment asks the quote for, and the one the
\* handler hands to createOrder
QuoteMethod(j) == "next-day"
OrderMethod(j) == "next-day"

\* ShippingService: the cost of shipping by a method, in thousandths
ShippingCostOf(method) == IF method = "next-day" THEN 9990 ELSE 4990

\* paymentDate and nextPaymentDate of the 'completed' handler, run at `now`
PaymentDate(now, j) == DateOf(now)
NextPaymentDateMut(now, j) == StartDateOf(j) + DateOf(PeriodOf(j))
NextPaymentDate(now, j) == DateOf(now + PeriodOf(j))

RECURSIVE ItemsTotal(_, _, _)
\* the sum of unit price x quantity over the products of an item list
ItemsTotal(j, items, unitPrice) ==
    IF items = {} THEN 0
    ELSE LET p == CHOOSE x \in items : TRUE
         IN unitPrice[p] * QuantityOf(j, p)
                + ItemsTotal(j, items \ {p}, unitPrice)

OrdersPersisted == {j \in Jobs : billing[j].order # <<>>}

\* processPayment for a job whose products exist: the prices as they are
\* now, the quote, the rounded amount, the charge
ProcessPayment(j) ==
    /\ billing[j].pc = "waiting"
    /\ \E chargeOk \in BOOLEAN :
        \E amount \in ToFixed2(ItemsTotal(j, ItemsOf(j), priceOf)
                                + ShippingCostOf(QuoteMethod(j))) :
            billing' = [billing EXCEPT ![j] =
                [@ EXCEPT !.pc = IF chargeOk THEN "charged" ELSE "failed",
                          !.quoteMethod = QuoteMethod(j),
                          !.charged = IF chargeOk THEN amount ELSE 0]]
    /\ UNCHANGED <<clock, priceOf, listening, logVars>>
    /\ UNCHANGED <<workerVars, amountVars, cartVars, orderVars>>

\* the 'completed' handler: the two dates, then createOrder (which takes
\* each product's price as it is now), Subscription.create and commit, or
\* the rollback that leaves no row
Completed(j) ==
    /\ billing[j].pc = "charged"
    /\ \E dbOk \in BOOLEAN :
        LET order == [id |-> Cardinality(OrdersPersisted) + 1,
                      customerId |-> UserOf(j),
                      method |-> OrderMethod(j),
                      shippingCost |-> ShippingCostOf(OrderMethod(j)),
                      unitPrice |-> [p \in ItemsOf(j) |-> priceOf[p]]]
            subscription == [customerId |-> order.customerId,
                             orderId |-> order.id,
                             startDate |-> StartDateOf(j),
                             endDate |-> EndDateOf(j),
                             lastPaymentDate |-> PaymentDate(clock, j),
                             nextPaymentDate |-> NextPaymentDate(clock, j)]
        IN billing' = [billing EXCEPT ![j] =
              IF dbOk
              THEN [@ EXCEPT !.pc = "persisted", !.order = <<order>>,
                             !.subscription = <<subscription>>]
              ELSE [@ EXCEPT !.pc = "rolledBack"]]
    /\ UNCHANGED <<clock, priceOf, listening, logVars>>
    /\ UNCHANGED <<workerVars, amountVars, cartVars, orderVars>>

\* an admin changes the price of a product
ChangePrice(p, v) ==
    /\ priceOf[p] # v
    /\ priceOf' = [priceOf EXCEPT ![p] = v]
    /\ UNCHANGED <<clock, billing, listening, logVars>>
    /\ UNCHANGED <<workerVars, amountVars, cartVars, orderVars>>

\* time passes
Tick ==
    /\ clock < MaxClock
    /\ clock' = clock + 1
    /\ UNCHANGED <<priceOf, billing, listening, logVars>>
    /\ UNCHANGED <<workerVars, amountVars, cartVars, orderVars>>

SubNext ==
    \/ \E j \in Jobs : ProcessPayment(j)
    \/ \E j \in Jobs : Completed(j)
    \/ \E p \in Products, v \in PriceValues : ChangePrice(p, v)
    \/ Tick

InitSub ==
    /\ WorkerInit /\ AmountIdle /\ CartInit /\ OrderInit
    /\ listening = TRUE /\ LogInit /\ SubIdle

SpecSub == InitSub /\ [][SubNext]_vars

\* C23: the Subscription persisted for a job has nextPaymentDate equal to
\* the job's start date plus its period, and comes with exactly one Order
\* holding one item per item of the job.
C23_NextPaymentFromStart ==
    \A j \in Jobs :
        billing[j].subscription # <<>> =>
            /\ billing[j].subscription[1].nextPaymentDate
                    = StartDateOf(j) + DateOf(PeriodOf(j))
            /\ Len(billing[j].order) = 1
            /\ DOMAIN billing[j].order[1].unitPrice = ItemsOf(j)

\* C24: the Subscription a handler run creates has lastPaymentDate the day
\* of the run and nextPaymentDate the day the run's time plus the period
\* falls on, refers to the Order created in the same run, and has the
\* job's start and end dates.
C24_SubscriptionRow ==
    [][\A j \in Jobs :
        (billing[j].subscription = <<>> /\ billing'[j].subscription # <<>>)
            => LET sub == billing'[j].subscription[1]
                   order == billing'[j].order[1]
               IN /\ sub.lastPaymentDate = DateOf(clock)
                  /\ sub.nextPaymentDate = DateOf(clock + PeriodOf(j))
                  /\ billing[j].order = <<>>
                  /\ \A i \in Jobs \ {j} :
                        billing'[i].order # <<>> =>
                            billing'[i].order[1].id # order.id
                  /\ sub.orderId = order.id
                  /\ sub.customerId = order.customerId
                  /\ sub.startDate = StartDateOf(j)
                  /\ sub.endDate = EndDateOf(j)
      ]_vars

C24_Witness ==
    \E j \in Jobs :
        /\ billing[j].subscription # <<>>
        /\ billing[j].subscription[1].lastPaymentDate # StartDateOf(j)
        /\ billing[j].subscription[1].orderId = billing[j].order[1].id

\* C25: the quote is asked for, and the Order is created with, the
\* shipping method of the job's payload.
C25_ShippingMethodOfJob ==
    \A j \in Jobs :
        /\ billing[j].quoteMethod # "none" =>
                billing[j].quoteMethod = ShippingMethodOf(j)
        /\ billing[j].order # <<>> =>
                billing[j].order[1].method = ShippingMethodOf(j)

\* C28: for a job with a persisted Order, the amount charged is the
\* rounded sum of the Order's unit prices times quantities plus its
\* shipping cost.
C28_ChargeMatchesOrder ==
    \A j \in Jobs :
        billing[j].order # <<>> =>
            billing[j].charged \in
                ToFixed2(ItemsTotal(j, ItemsOf(j), billing[j].order[1].unitPrice)
                            + billing[j].order[1].shippingCost)

(* ------------------------ whose rows a call touches -------------------- *)

\* call k is made in this step
Begins(k, op) ==
    /\ started' = started + 1
    /\ ~InProgress(k)
    /\ calls'[k] # calls[k]
    /\ calls'[k].op = op

\* the CartItems of the carts other than that of customer c
OtherItems(table, c) == {r \in table : r.cartId # CartIdOf(c)}

\* C26: clearCart removes every CartItem of the customer's cart and
\* leaves the CartItems of the other carts as they are; for a customer
\* without a cart it fails with CartNotFoundError and changes nothing.
C26_ClearOwnCartOnly ==
    [][\A k \in Callers :
        Begins(k, "clear") =>
            LET c == calls'[k].customer
            IN /\ CartIdOf(c) = NoCart =>
                    /\ calls'[k].result = "CartNotFoundError"
                    /\ cartItems' = cartItems
               /\ CartIdOf(c) # NoCart =>
                    /\ calls'[k].result = "ok"
                    /\ OtherItems(cartItems', c) = OtherItems(cartItems, c)
                    /\ cartItems' = OtherItems(cartItems, c)
      ]_vars

C26_Witness ==
    \E k \in Callers :
        /\ calls[k].op = "clear"
        /\ calls[k].result = "ok"
        /\ started = 3
        /\ Cardinality(customersSeen) = 2
        /\ cartItems # {}
        /\ cartItems = OtherItems(cartItems, calls[k].customer)
        /\ \E p \in Products :
              added[p] > 0 /\ \A r \in cartItems : r.productId # p

\* C27: the step in which an addItemToCart call writes leaves the
\* CartItems of every other customer's cart as they were.
C27_AddTouchesOwnCartOnly ==
    [][\A k \in Callers :
        (calls[k].op = "add" /\ InProgress(k) /\ calls'[k].pc = "done") =>
            OtherItems(cartItems', calls[k].customer)
                = OtherItems(cartItems, calls[k].customer)
      ]_vars

(* ------------------- how the handler ends its transaction -------------- *)

\* transaction.commit() was called in run d of the handler of job j: it
\* went through, or it failed and the catch block logged the failure
CommitAttempted(j, d) ==
    hpc[j][d] = "committed" \/ <<j, d, "commit">> \in consoleErr

\* transaction.rollback() was called in that run, by the catch block
RollbackCalled(j, d) == hpc[j][d] = "rolledBack"

\* C30: no transaction of the handler is ended by both calls: rollback is
\* not called on a transaction whose commit was attempted.
C30_CommitOrRollback ==
    \A j \in Jobs : \A d \in Deliveries :
        ~(CommitAttempted(j, d) /\ RollbackCalled(j, d))

(* ---------------- the worker between constructor and listen() ---------- *)

\* listen(): registers the handlers of 'completed', 'failed' and 'error'
Listen ==
    /\ ~listening
    /\ listening' = TRUE
    /\ UNCHANGED <<subVars, logVars>>
    /\ UNCHANGED <<workerVars, amountVars, cartVars, orderVars>>

\* the constructor has made the Worker, which runs from then on; listen()
\* has not been called yet
InitStart ==
    /\ WorkerInit /\ AmountIdle /\ CartInit /\ OrderInit
    /\ listening = FALSE /\ SubIdle /\ LogInit

StartNext ==
    \/ Listen
    \/ \E j \in Jobs : Fetch(j)
    \/ \E j \in Jobs : Pricing(j)
    \/ \E j \in Jobs : Shipping(j)
    \/ \E j \in Jobs : Charge(j)
    \/ \E j \in Jobs : Return(j)
    \/ \E j \in Jobs, d \in Deliveries : CreateOrder(j, d)
    \/ \E j \in Jobs, d \in Deliveries : CreateSubscription(j, d)
    \/ \E j \in Jobs, d \in Deliveries : Commit(j, d)

SpecStart == InitStart /\ [][StartNext]_vars

\* C29: no job is charged before listen() has registered the 'completed'
\* handler, and the handler has run for every completed job.
C29_ListenBeforeJobs ==
    \A j \in Jobs :
        /\ charges[j] > 0 => listening
        /\ jobState[j] = "completed" => hpc[j][deliveries[j]] # "idle"

=============================================================================
